---- MODULE Spec2Model ----
(***************************************************************************)
(* Model of the struct-to-url.Values encoder of package schema             *)
(* (Encoder.Encode, Encoder.EncodeValues, Encoder.encode, typeEncoder,     *)
(* isZero, UrlValues).                                                     *)
(*                                                                         *)
(* The struct handed to the encoder is read one field per step, in         *)
(* declaration order, as the loop of Encoder.encode reads it; each step    *)
(* draws the field (alias, options, type and value) it reads.  A nested    *)
(* struct is encoded inside the step of the field that holds it, by the    *)
(* recursive operator encode, exactly as the code recurses.                *)
(***************************************************************************)
EXTENDS Integers, Sequences, FiniteSets, TLC

(***************************************************************************)
(* Bounds of the model.                                                    *)
(***************************************************************************)
\* number of fields of the top-level struct
MaxFields == 1
\* length of a slice value
MaxLen == 2

(***************************************************************************)
(* Go types.  A type is named by its Type().String(); Kind and Elem are    *)
(* the reflect.Type accessors of the same names.                           *)
(***************************************************************************)
Types ==
  {"int", "*int", "[]int", "map[string]int", "*map[string]int", "[1]int",
   "Inner", "*Inner", "**Inner", "[]*Inner", "Bad", "Dup"}

Kind(t) ==
  CASE t = "int" -> "int"
    [] t = "bool" -> "bool"
    [] t = "string" -> "string"
    [] t = "uint" -> "uint"
    [] t \in {"*int", "*map[string]int", "*Inner", "**Inner"} -> "ptr"
    [] t \in {"[]int", "[]*Inner"} -> "slice"
    [] t = "map[string]int" -> "map"
    [] t = "[1]int" -> "array"
    [] t \in {"Inner", "Bad", "Dup"} -> "struct"

Elem(t) ==
  CASE t = "*int" -> "int"
    [] t = "*map[string]int" -> "map[string]int"
    [] t = "*Inner" -> "Inner"
    [] t = "**Inner" -> "*Inner"
    [] t = "[]int" -> "int"
    [] t = "[]*Inner" -> "*Inner"
    [] t = "[1]int" -> "int"

NoOpts == {}
OmitEmpty == {"omitempty"}

\* The struct types declared for the model: alias, options and type of
\* every field, in declaration order.
\*   type Inner struct { X int `schema:"b"`; Y []int `schema:"a"` }
\*   type Bad   struct { B int `schema:"b"`; M, N map[string]int }
\*   type Dup   struct { A int `schema:"a"`; C int `schema:"c"`; S []int `schema:"a"` }
StructFields(t) ==
  CASE t = "Inner" -> << [name |-> "b", opts |-> NoOpts, type |-> "int"],
                         [name |-> "a", opts |-> NoOpts, type |-> "[]int"] >>
    [] t = "Bad"   -> << [name |-> "b", opts |-> NoOpts, type |-> "int"],
                         [name |-> "M", opts |-> NoOpts, type |-> "map[string]int"],
                         [name |-> "N", opts |-> NoOpts, type |-> "map[string]int"] >>
    [] t = "Dup"   -> << [name |-> "a", opts |-> NoOpts, type |-> "int"],
                         [name |-> "c", opts |-> NoOpts, type |-> "int"],
                         [name |-> "a", opts |-> NoOpts, type |-> "[]int"] >>

\* struct types that implement interface{ IsZero() bool }
ZeroerTypes == {}

(***************************************************************************)
(* Go values.  Every value has the same shape: n is the number held by a   *)
(* scalar, nil tells a nil pointer, slice or map, and sub holds the        *)
(* pointee of a non-nil pointer (one element), the elements of a slice,    *)
(* array or map, or the field values of a struct.                          *)
(***************************************************************************)
IntVals == {0, 1}

IntVal(n) == [n |-> n, nil |-> FALSE, sub |-> <<>>]
NilVal == [n |-> 0, nil |-> TRUE, sub |-> <<>>]
PtrTo(v) == [n |-> 0, nil |-> FALSE, sub |-> <<v>>]
SeqVal(s) == [n |-> 0, nil |-> FALSE, sub |-> s]

\* the slices of int of the model: nil, and 1, 0, 1, ... cut at every length
\* up to MaxLen
IntSlices ==
  {NilVal} \cup {SeqVal([j \in 1..m |-> IntVal(j % 2)]) : m \in 0..MaxLen}

\* Inner{}, and Inner{X: 1, Y: []int{1}}
ZeroInner == SeqVal(<<IntVal(0), NilVal>>)
OneInner == SeqVal(<<IntVal(1), SeqVal(<<IntVal(1)>>)>>)

ValuesOf(t) ==
  CASE t = "int" -> {IntVal(n) : n \in IntVals}
    [] t = "*int" -> {NilVal, PtrTo(IntVal(1))}
    [] t = "[]int" -> IntSlices
    [] t = "map[string]int" -> {NilVal, SeqVal(<<IntVal(1)>>)}
    [] t = "*map[string]int" -> {NilVal, PtrTo(SeqVal(<<IntVal(1)>>))}
    [] t = "[1]int" -> {SeqVal(<<IntVal(0)>>)}
    [] t = "Inner" -> {ZeroInner, OneInner}
    [] t = "*Inner" -> {NilVal, PtrTo(ZeroInner), PtrTo(OneInner)}
    [] t = "**Inner" -> {NilVal, PtrTo(NilVal), PtrTo(PtrTo(OneInner))}
    [] t = "[]*Inner" -> {SeqVal(<<>>), SeqVal(<<NilVal>>), SeqVal(<<PtrTo(OneInner)>>)}
    [] t = "Bad" -> {SeqVal(<<IntVal(1), NilVal, SeqVal(<<IntVal(1)>>)>>)}
    [] t = "Dup" -> {SeqVal(<<IntVal(0), IntVal(1), SeqVal(<<IntVal(1), IntVal(0)>>)>>)}

\* aliases of the top-level struct's fields; "-" excludes the field
Names == {"a", "c"}

\* the fields a top-level struct can declare, with the value they hold
FieldU ==
  UNION {{[name |-> nm, opts |-> o, type |-> t, val |-> v] :
            nm \in Names, o \in {NoOpts, OmitEmpty}, v \in ValuesOf(t)} : t \in Types}
  \cup UNION {{[name |-> "-", opts |-> NoOpts, type |-> t, val |-> v] :
                 v \in ValuesOf(t)} : t \in Types}

(***************************************************************************)
(* strconv and fmt.                                                        *)
(***************************************************************************)
Digit(d) ==
  CASE d = 0 -> "0" [] d = 1 -> "1" [] d = 2 -> "2" [] d = 3 -> "3" [] d = 4 -> "4"
    [] d = 5 -> "5" [] d = 6 -> "6" [] d = 7 -> "7" [] d = 8 -> "8" [] d = 9 -> "9"

RECURSIVE FormatUint(_)
FormatUint(n) == IF n < 10 THEN Digit(n) ELSE FormatUint(n \div 10) \o Digit(n % 10)

FormatInt(n) == IF n < 0 THEN "-" \o FormatUint(-n) ELSE FormatUint(n)

FormatBool(b) == IF b THEN "true" ELSE "false"

RECURSIVE JoinVals(_, _, _)
RECURSIVE ValStr(_, _)
\* fmt's %v of a value of type t
ValStr(t, v) ==
  CASE Kind(t) \in {"int", "uint"} -> FormatInt(v.n)
    [] Kind(t) = "ptr" -> IF v.nil THEN "<nil>" ELSE "&" \o ValStr(Elem(t), v.sub[1])
    [] Kind(t) \in {"slice", "array"} ->
         "[" \o JoinVals([i \in 1..Len(v.sub) |-> Elem(t)], v.sub, 1) \o "]"
    [] Kind(t) = "map" -> "map[" \o JoinVals([i \in 1..Len(v.sub) |-> "int"], v.sub, 1) \o "]"
    [] Kind(t) = "struct" ->
         "{" \o JoinVals([i \in 1..Len(v.sub) |-> StructFields(t)[i].type], v.sub, 1) \o "}"

JoinVals(ts, vs, i) ==
  IF i > Len(vs) THEN ""
  ELSE (IF i > 1 THEN " " ELSE "") \o ValStr(ts[i], vs[i]) \o JoinVals(ts, vs, i + 1)

\* a caller's encoder function (the func(reflect.Value) string handed to
\* RegisterEncoder): encoder id applied to a value of type t.  Two encoders
\* differ on every value, and an encoder differs on any two values.
RECURSIVE UserJoin(_, _, _)
RECURSIVE UserTag(_, _)
UserTag(t, v) ==
  CASE Kind(t) \in {"int", "uint"} -> FormatInt(v.n)
    [] Kind(t) = "ptr" -> IF v.nil THEN "nil" ELSE "p" \o UserTag(Elem(t), v.sub[1])
    [] Kind(t) = "struct" ->
         "s" \o UserJoin([i \in 1..Len(v.sub) |-> StructFields(t)[i].type], v.sub, 1)
    [] Kind(t) \in {"slice", "array", "map"} ->
         IF v.nil THEN "nil" ELSE "l" \o UserJoin([i \in 1..Len(v.sub) |-> Elem(t)], v.sub, 1)

UserJoin(ts, vs, i) ==
  IF i > Len(vs) THEN "" ELSE "-" \o UserTag(ts[i], vs[i]) \o UserJoin(ts, vs, i + 1)

EncIds == {"f", "g"}

UserEncoder(id, t, v) == id \o "." \o UserTag(t, v)

\* the types a caller registers an encoder for
RegTypes == {"int", "Inner", "*Inner"}

(***************************************************************************)
(* Maps (map[K]V): functions whose domain is the set of keys present.      *)
(***************************************************************************)
EmptyMap == [k \in {} |-> 0]

\* F applied to the value of x, with x evaluated once (a local variable of
\* the code holding the result of a call)
With(x, F(_)) == CHOOSE r \in {F(y) : y \in {x}} : TRUE

Put(m, k, x) == [y \in DOMAIN m \cup {k} |-> IF y = k THEN x ELSE m[y]]

(***************************************************************************)
(* typeEncoder and the built-in encoders.  An encoderFunc is the list of   *)
(* pointer wrappers around a leaf: <<"encodeInt">>, <<"ptr", "encodeInt">>,*)
(* <<"f">> for the registered encoder f; the nil func is <<>>, so the      *)
(* closure typeEncoder builds around a nil f is <<"ptr">>.                 *)
(***************************************************************************)
NilFunc == <<>>

hasCustomEncoder(t, reg) == t \in DOMAIN reg

\* line 93
registerEncoder(reg, t, id) == Put(reg, t, id)

\* typeEncoder with the built-in encoders tried before the registered ones
RECURSIVE typeEncoderBuiltinFirst(_, _)
typeEncoderBuiltinFirst(t, reg) ==
  CASE Kind(t) = "int" -> <<"encodeInt">>
    [] Kind(t) = "ptr" -> <<"ptr">> \o typeEncoderBuiltinFirst(Elem(t), reg)
    [] OTHER -> IF t \in DOMAIN reg THEN <<reg[t]>> ELSE NilFunc

\* typeEncoder without its case for pointers
typeEncoderNoPointer(t, reg) ==
  IF t \in DOMAIN reg THEN <<reg[t]>>
  ELSE IF Kind(t) = "int" THEN <<"encodeInt">>
  ELSE NilFunc

RECURSIVE typeEncoder(_, _)
typeEncoder(t, reg) ==
  IF t \in DOMAIN reg THEN <<reg[t]>>
  ELSE CASE Kind(t) = "bool" -> <<"encodeBool">>
         [] Kind(t) = "int" -> <<"encodeInt">>
         [] Kind(t) = "uint" -> <<"encodeUint">>
         [] Kind(t) = "float32" -> <<"encodeFloat32">>
         [] Kind(t) = "float64" -> <<"encodeFloat64">>
         [] Kind(t) = "ptr" -> <<"ptr">> \o typeEncoder(Elem(t), reg)
         [] Kind(t) = "string" -> <<"encodeString">>
         [] OTHER -> NilFunc

encodeBool(v) == FormatBool(v.n # 0)
encodeInt(v) == FormatInt(v.n)
encodeUint(v) == FormatUint(v.n)

\* the call encFunc(v): the string returned, or the run-time panic of
\* calling a nil func (the f of a pointer closure built for a type that
\* has no encoder)
RECURSIVE Call(_, _, _)
Call(enc, t, v) ==
  IF enc = NilFunc THEN [panic |-> TRUE, s |-> ""]
  ELSE IF Head(enc) = "ptr" THEN
         IF v.nil THEN [panic |-> FALSE, s |-> "null"]
         ELSE Call(Tail(enc), Elem(t), v.sub[1])
  ELSE IF Head(enc) \in EncIds THEN [panic |-> FALSE, s |-> UserEncoder(Head(enc), t, v)]
  ELSE IF Head(enc) = "encodeInt" THEN [panic |-> FALSE, s |-> encodeInt(v)]
  ELSE IF Head(enc) = "encodeUint" THEN [panic |-> FALSE, s |-> encodeUint(v)]
  ELSE [panic |-> FALSE, s |-> encodeBool(v)]

isValidStructPointer(t, v) ==
  Kind(t) = "ptr" /\ ~v.nil /\ Kind(Elem(t)) = "struct"

\* the IsZero() method of a type of ZeroerTypes
IsZeroMethod(t, v) == v.n = 0

\* reflect.Zero of a pointer or scalar type
Zero(t) == IF Kind(t) = "ptr" THEN NilVal ELSE IntVal(0)

RECURSIVE isZero(_, _)
isZero(t, v) ==
  CASE Kind(t) \in {"map", "slice"} -> v.nil \/ Len(v.sub) = 0
    [] Kind(t) = "array" -> \A i \in 1..Len(v.sub) : isZero(Elem(t), v.sub[i])
    [] Kind(t) = "struct" ->
         IF t \in ZeroerTypes THEN IsZeroMethod(t, v)
         ELSE \A i \in 1..Len(v.sub) : isZero(StructFields(t)[i].type, v.sub[i])
    [] OTHER -> v = Zero(t)

(***************************************************************************)
(* UrlValues: keys is the key-order list, values the map.                  *)
(***************************************************************************)
\* removeKey that finds no key
removeKeyNone(keys, key) == keys

RECURSIVE removeKey(_, _)
removeKey(keys, key) ==
  IF keys = <<>> THEN <<>>
  ELSE IF Head(keys) = key THEN Tail(keys)
  ELSE <<Head(keys)>> \o removeKey(Tail(keys), key)

\* url.QueryEscape on the strings of the model: letters, digits, '-', '_'
\* and '.' are not escaped, a space becomes '+'
QueryEscape(s) == IF s = "x y" THEN "x+y" ELSE s

\* the pairs written in the order of the key names, as url.Values.Encode
\* writes them
KeyRank(k) ==
  CASE k = "M" -> 1 [] k = "N" -> 2 [] k = "a" -> 3 [] k = "b" -> 4 [] k = "c" -> 5

RECURSIVE SortedFrom(_, _)
SortedFrom(keys, r) ==
  IF r > 5 THEN <<>>
  ELSE SelectSeq(keys, LAMBDA k : KeyRank(k) = r) \o SortedFrom(keys, r + 1)

RECURSIVE PairsInOrder(_, _)
PairsInOrder(keys, values) ==
  IF keys = <<>> THEN <<>>
  ELSE [j \in 1..Len(values[Head(keys)]) |->
          <<QueryEscape(Head(keys)), QueryEscape(values[Head(keys)][j])>>]
         \o PairsInOrder(Tail(keys), values)

EncodePairsSorted(keys, values) == PairsInOrder(SortedFrom(keys, 1), values)

\* the (key, value) pairs UrlValues.Encode writes, in the order it writes
\* them
RECURSIVE EncodePairs(_, _)
EncodePairs(keys, values) ==
  IF keys = <<>> THEN <<>>
  ELSE LET k == Head(keys)
           vs == IF k \in DOMAIN values THEN values[k] ELSE <<>>
       IN [j \in 1..Len(vs) |-> <<QueryEscape(k), QueryEscape(vs[j])>>]
            \o EncodePairs(Tail(keys), values)

RECURSIVE JoinPairs(_, _)
JoinPairs(ps, i) ==
  IF i > Len(ps) THEN ""
  ELSE (IF i > 1 THEN "&" ELSE "") \o ps[i][1] \o "=" \o ps[i][2] \o JoinPairs(ps, i + 1)

UrlValuesEncode(keys, values) ==
  IF DOMAIN values = {} THEN "" ELSE JoinPairs(EncodePairs(keys, values), 1)

(***************************************************************************)
(* Encoder.encode.  A traversal state st holds the collector (keys,        *)
(* values), the MultiError of the running call (errors) and whether the    *)
(* call has panicked.                                                      *)
(***************************************************************************)
\* spec: fieldAlias(field) -> (name, optionSet)
fieldAlias(f) == [name |-> f.name, opts |-> f.opts]

\* an entry of a MultiError: a plain error, or the MultiError of a nested
\* struct
NotFoundError(t, v) ==
  [msg |-> "schema: encoder not found for " \o ValStr(t, v), sub |-> EmptyMap]
NestedError(errs) == [msg |-> "", sub |-> errs]

\* lines 172-175 without the look-up of line 172
appendValueAlwaysKey(st, name, value) ==
  [st EXCEPT !.keys = Append(st.keys, name),
             !.values = Put(st.values, name,
                            (IF name \in DOMAIN st.values THEN st.values[name] ELSE <<>>)
                              \o <<value>>)]

\* lines 172-175
appendValue(st, name, value) ==
  [st EXCEPT !.keys = IF name \in DOMAIN st.values THEN st.keys
                      ELSE Append(st.keys, name),
             !.values = Put(st.values, name,
                            (IF name \in DOMAIN st.values THEN st.values[name] ELSE <<>>)
                              \o <<value>>)]

\* lines 207-209: the elements from index j on, until one panics
RECURSIVE encodeElems(_, _, _, _, _, _)
encodeElems(st, name, enc, et, elems, j) ==
  IF j > Len(elems) THEN st
  ELSE With(Call(enc, et, elems[j]),
            LAMBDA r : IF r.panic THEN [st EXCEPT !.panic = TRUE]
                       ELSE With([st EXCEPT !.values[name] = Append(@, r.s)],
                                 LAMBDA s1 : encodeElems(s1, name, enc, et, elems, j + 1)))

\* lines 202-209 without the make of line 206
encodeSliceKeep(st, name, enc, et, elems) ==
  LET ks == IF name \in DOMAIN st.values THEN removeKey(st.keys, name) ELSE st.keys
      st1 == [st EXCEPT !.keys = Append(ks, name),
                        !.values = IF name \in DOMAIN st.values THEN st.values
                                   ELSE Put(st.values, name, <<>>)]
  IN encodeElems(st1, name, enc, et, elems, 1)

\* lines 202-209
encodeSlice(st, name, enc, et, elems) ==
  LET ks == IF name \in DOMAIN st.values THEN removeKey(st.keys, name) ELSE st.keys
      st1 == [st EXCEPT !.keys = Append(ks, name),
                        !.values = Put(st.values, name, <<>>)]
  IN encodeElems(st1, name, enc, et, elems, 1)

\* the branch of the loop body a field takes
Branch(f, reg) ==
  LET t == f.type
  IN IF fieldAlias(f).name = "-" THEN "skip"
     ELSE IF isValidStructPointer(t, f.val) /\ ~hasCustomEncoder(t, reg) THEN "structptr"
     ELSE IF typeEncoder(t, reg) # NilFunc THEN "immediate"
     ELSE IF Kind(t) = "struct" THEN "struct"
     ELSE IF Kind(t) # "slice" \/ typeEncoder(Elem(t), reg) = NilFunc THEN "noenc"
     ELSE "slice"

RECURSIVE encodeField(_, _, _)
RECURSIVE encodeFields(_, _, _, _, _)

\* lines 137-216 on a struct value v of type t: the collector after the
\* call, with errors the MultiError returned (empty for nil)
encode(t, v, st, reg) ==
  encodeFields(StructFields(t), v.sub, 1, [st EXCEPT !.errors = EmptyMap], reg)

\* lines 156-160 and 180-184: the recursive call and the parent's entry
encodeNested(t, v, st, reg) ==
  With(encode(t, v, st, reg),
       LAMBDA r : [keys |-> r.keys, values |-> r.values, panic |-> r.panic,
                   errors |-> IF r.errors # EmptyMap /\ ~r.panic
                              THEN Put(st.errors, t, NestedError(r.errors))
                              ELSE st.errors])

\* lines 163-177
encodeImmediate(f, st, reg) ==
  With(Call(typeEncoder(f.type, reg), f.type, f.val),
       LAMBDA r : IF r.panic THEN [st EXCEPT !.panic = TRUE]
                  ELSE IF "omitempty" \in fieldAlias(f).opts /\ isZero(f.type, f.val) THEN st
                  ELSE appendValue(st, fieldAlias(f).name, r.s))

\* lines 191-194
encoderNotFound(f, st) ==
  [st EXCEPT !.errors = Put(st.errors, f.type, NotFoundError(f.type, f.val))]

\* lines 196-209
encodeSliceField(f, st, reg) ==
  LET a == fieldAlias(f)
  IN IF Len(f.val.sub) = 0 /\ "omitempty" \in a.opts THEN st
     ELSE encodeSlice(st, a.name, typeEncoder(Elem(f.type), reg), Elem(f.type), f.val.sub)

\* one iteration of the loop of lines 148-210
encodeField(f, st, reg) ==
  LET b == Branch(f, reg)
  IN CASE b = "skip" -> st
       [] b = "structptr" -> encodeNested(Elem(f.type), f.val.sub[1], st, reg)
       [] b = "immediate" -> encodeImmediate(f, st, reg)
       [] b = "struct" -> encodeNested(f.type, f.val, st, reg)
       [] b = "noenc" -> encoderNotFound(f, st)
       [] b = "slice" -> encodeSliceField(f, st, reg)

encodeFields(fs, vs, i, st, reg) ==
  IF i > Len(fs) \/ st.panic THEN st
  ELSE With(encodeField([name |-> fs[i].name, opts |-> fs[i].opts,
                         type |-> fs[i].type, val |-> vs[i]], st, reg),
            LAMBDA s1 : encodeFields(fs, vs, i + 1, s1, reg))

(***************************************************************************)
(* The state.                                                              *)
(***************************************************************************)
VARIABLES
  regenc,   \* Encoder.regenc
  pc,       \* "setup", "encode" (inside the loop of the top-level call),
            \* "done" (the entry point has returned) or "panic"
  entry,    \* the entry point called: "Encode" or "EncodeValues"
  keys,     \* UrlValues.keys of the call's collector
  values,   \* UrlValues.values of the call's collector (dst, for Encode)
  errors,   \* the MultiError of the top-level encode call
  i,        \* number of fields of the top-level struct read so far
  last,     \* the field read by the latest iteration, the branch it took
            \* and whether its key was in values before
  ret       \* what the entry point returned

vars == <<regenc, pc, entry, keys, values, errors, i, last, ret>>

NoLast == [branch |-> "", name |-> "", ok |-> FALSE]
NoRet == [err |-> "", uv |-> ""]

\* the maps a caller hands to Encode as dst
DstU == {EmptyMap, [k \in {"a"} |-> <<"x y">>]}

\* what a caller hands over as src: a struct, a pointer to a struct, a nil
\* pointer to a struct, or a value that is not a struct
SrcKinds == {"struct", "*struct", "nil", "int"}

Init ==
  /\ regenc = EmptyMap
  /\ pc = "setup"
  /\ entry = ""
  /\ keys = <<>>
  /\ values = EmptyMap
  /\ errors = EmptyMap
  /\ i = 0
  /\ last = NoLast
  /\ ret = NoRet

RegisterEncoder(t, id) ==
  /\ pc = "setup"
  /\ regenc' = registerEncoder(regenc, t, id)
  /\ UNCHANGED <<pc, entry, keys, values, errors, i, last, ret>>

\* lines 138-146: the top-level call up to its loop
Enter(src, ep, dst) ==
  /\ pc = "setup"
  /\ entry' = ep
  /\ keys' = <<>>
  /\ values' = dst
  /\ IF src \in {"struct", "*struct"}
     THEN pc' = "encode" /\ ret' = ret
     ELSE /\ pc' = "done"
          /\ ret' = [err |-> "schema: interface must be a struct",
                     uv |-> IF ep = "Encode" THEN "" ELSE "nil"]
  /\ UNCHANGED <<regenc, errors, i, last>>

\* lines 69-76
Encode(src, dst) == Enter(src, "Encode", dst)

\* lines 79-84
EncodeValues(src) == Enter(src, "EncodeValues", EmptyMap)

\* one iteration of the loop of the top-level call, on field f
Iterate(f, b) ==
  /\ pc = "encode"
  /\ i < MaxFields
  /\ Branch(f, regenc) = b
  /\ \E st \in {encodeField(f, [keys |-> keys, values |-> values,
                                 errors |-> errors, panic |-> FALSE], regenc)} :
        /\ keys' = st.keys
        /\ values' = st.values
        /\ errors' = st.errors
        /\ pc' = IF st.panic THEN "panic" ELSE "encode"
  /\ i' = i + 1
  /\ last' = [branch |-> b, name |-> f.name, ok |-> f.name \in DOMAIN values]
  /\ UNCHANGED <<regenc, entry, ret>>

SkipField(f) == Iterate(f, "skip")
EncodeStructPointer(f) == Iterate(f, "structptr")
EncodeImmediate(f) == Iterate(f, "immediate")
EncodeStruct(f) == Iterate(f, "struct")
EncoderNotFound(f) == Iterate(f, "noenc")
EncodeSlice(f) == Iterate(f, "slice")

\* lines 212-215, and the return of the entry point (75, 85-88)
Return ==
  /\ pc = "encode"
  /\ pc' = "done"
  /\ ret' = IF errors # EmptyMap
            THEN [err |-> "MultiError", uv |-> IF entry = "Encode" THEN "" ELSE "nil"]
            ELSE [err |-> "nil", uv |-> IF entry = "Encode" THEN "" ELSE "values"]
  /\ UNCHANGED <<regenc, entry, keys, values, errors, i, last>>

Next ==
  \/ \E t \in RegTypes, id \in EncIds : RegisterEncoder(t, id)
  \/ \E src \in SrcKinds, dst \in DstU : Encode(src, dst)
  \/ \E src \in SrcKinds : EncodeValues(src)
  \/ \E f \in FieldU : SkipField(f)
  \/ \E f \in FieldU : EncodeStructPointer(f)
  \/ \E f \in FieldU : EncodeImmediate(f)
  \/ \E f \in FieldU : EncodeStruct(f)
  \/ \E f \in FieldU : EncoderNotFound(f)
  \/ \E f \in FieldU : EncodeSlice(f)
  \/ Return

Spec == Init /\ [][Next]_vars

(***************************************************************************)
(* The vocabulary of the properties.                                       *)
(***************************************************************************)
\* the collector and the MultiError as the running iteration finds them
St == [keys |-> keys, values |-> values, errors |-> errors, panic |-> FALSE]

\* the top-level call is about to read a field
Reading == pc = "encode" /\ i < MaxFields

\* the traversal state after the iteration that reads field f
Post(f) == encodeField(f, St, regenc)

Registered(t) == t \in DOMAIN regenc

\* a type encoded as one string: it has a registered encoder or a built-in
\* scalar encoder, or is a pointer to such a type
RECURSIVE Scalarish(_)
Scalarish(t) ==
  \/ Registered(t)
  \/ Kind(t) = "int"
  \/ Kind(t) = "ptr" /\ Scalarish(Elem(t))

\* a type the encoder is meant to encode
Encodable(t) ==
  \/ Scalarish(t)
  \/ Kind(t) = "struct"
  \/ Kind(t) = "ptr" /\ Kind(Elem(t)) = "struct"
  \/ Kind(t) = "slice" /\ Scalarish(Elem(t))

\* the string a value of a Scalarish type is encoded as
RECURSIVE ExpectedEnc(_, _)
ExpectedEnc(t, v) ==
  IF Registered(t) THEN UserEncoder(regenc[t], t, v)
  ELSE IF Kind(t) = "ptr" THEN (IF v.nil THEN "null" ELSE ExpectedEnc(Elem(t), v.sub[1]))
  ELSE FormatInt(v.n)

\* the field holds a nested struct whose fields are flattened: an embedded
\* struct value or a non-nil pointer to a struct
Flattened(f) ==
  /\ ~Registered(f.type)
  /\ \/ Kind(f.type) = "struct"
     \/ Kind(f.type) = "ptr" /\ Kind(Elem(f.type)) = "struct" /\ ~f.val.nil

\* the struct value a Flattened field holds, and its type
NestedType(f) == IF Kind(f.type) = "ptr" THEN Elem(f.type) ELSE f.type
NestedVal(f) == IF Kind(f.type) = "ptr" THEN f.val.sub[1] ELSE f.val
NestedField(f, j) ==
  [name |-> StructFields(NestedType(f))[j].name, opts |-> StructFields(NestedType(f))[j].opts,
   type |-> StructFields(NestedType(f))[j].type, val |-> NestedVal(f).sub[j]]
NestedCount(f) == Len(StructFields(NestedType(f)))

\* the zero or empty value of a type: zero scalar, nil pointer, nil or
\* zero-length slice, struct whose fields are all zero
RECURSIVE EmptyValue(_, _)
EmptyValue(t, v) ==
  CASE Kind(t) = "int" -> v.n = 0
    [] Kind(t) = "ptr" -> v.nil
    [] Kind(t) \in {"slice", "map"} -> v.nil \/ v.sub = <<>>
    [] Kind(t) = "struct" ->
         \A j \in 1..Len(v.sub) : EmptyValue(StructFields(t)[j].type, v.sub[j])
    [] OTHER -> FALSE

Suppressed(f) == "omitempty" \in f.opts /\ EmptyValue(f.type, f.val)

\* traversal state p is St with value s appended under key name, and
\* nothing else changed
Appended(p, name, s) ==
  /\ ~p.panic
  /\ p.errors = errors
  /\ DOMAIN p.values = DOMAIN values \cup {name}
  /\ \A k \in DOMAIN values \ {name} : p.values[k] = values[k]
  /\ IF name \in DOMAIN values
     THEN /\ p.keys = keys
          /\ p.values[name] = values[name] \o <<s>>
     ELSE /\ p.keys = keys \o <<name>>
          /\ p.values[name] = <<s>>

\* the keys of the pairs UrlValues.Encode writes, in the order it first
\* writes each
RECURSIVE FirstOccurrences(_)
FirstOccurrences(ks) ==
  IF ks = <<>> THEN <<>>
  ELSE LET r == FirstOccurrences(SubSeq(ks, 1, Len(ks) - 1))
           k == ks[Len(ks)]
       IN IF \E j \in 1..Len(r) : r[j] = k THEN r ELSE Append(r, k)

RenderedKeys(ks, vs) ==
  LET ps == EncodePairs(ks, vs) IN FirstOccurrences([j \in 1..Len(ps) |-> ps[j][1]])

NoDuplicates(ks) == \A m, n \in 1..Len(ks) : ks[m] = ks[n] => m = n

(***************************************************************************)
(* Key order.                                                              *)
(***************************************************************************)
\* the field, and every field nested in it, is keyed, encodable and not
\* suppressed by omitempty
RECURSIVE Plain(_)
Plain(f) ==
  /\ f.name # "-"
  /\ Encodable(f.type)
  /\ ~Suppressed(f)
  /\ Flattened(f) => \A j \in 1..NestedCount(f) : Plain(NestedField(f, j))

\* the keys a field declares, in declaration order, a nested struct's keys
\* in the place of the field that holds it
RECURSIVE DeclaredFrom(_, _)
RECURSIVE DeclaredKeys(_)
DeclaredKeys(f) == IF Flattened(f) THEN DeclaredFrom(f, 1) ELSE <<f.name>>
DeclaredFrom(f, j) ==
  IF j > NestedCount(f) THEN <<>>
  ELSE DeclaredKeys(NestedField(f, j)) \o DeclaredFrom(f, j + 1)

\* the declared keys that get a value: an empty slice declares its key and
\* writes no pair
RECURSIVE WrittenFrom(_, _)
RECURSIVE WrittenKeys(_)
WrittenKeys(f) ==
  IF Flattened(f) THEN WrittenFrom(f, 1)
  ELSE IF Kind(f.type) = "slice" /\ ~Registered(f.type) /\ f.val.sub = <<>> THEN <<>>
  ELSE <<f.name>>
WrittenFrom(f, j) ==
  IF j > NestedCount(f) THEN <<>>
  ELSE WrittenKeys(NestedField(f, j)) \o WrittenFrom(f, j + 1)

DistinctKeys(f) ==
  /\ NoDuplicates(keys \o DeclaredKeys(f))
  /\ \A j \in 1..Len(DeclaredKeys(f)) : DeclaredKeys(f)[j] \notin DOMAIN values

PointerField(f) ==
  f.name # "-" /\ Kind(f.type) = "ptr" /\ "omitempty" \notin f.opts

\* the pointee is a scalar, a type with a registered encoder, or a struct
PointeeInClaim(t) ==
  Kind(Elem(t)) \in {"int", "struct"} \/ Registered(Elem(t))

\* the field of the pointee type that holds the dereferenced value
Deref(f) == [f EXCEPT !.type = Elem(f.type), !.val = f.val.sub[1]]

PointerRule(f) ==
  IF f.val.nil THEN \A p \in {Post(f)} : Appended(p, f.name, "null")
  ELSE Post(f) = Post(Deref(f))

\* C3 as stated: whatever encoders are registered, a nil pointer field
\* without omitempty is emitted as the single value "null", and a non-nil
\* one leaves the collector as the field of the pointee type holding the
\* dereferenced value does.
C3_PointerAsPointee ==
  Reading => \A f \in FieldU : (PointerField(f) /\ PointeeInClaim(f.type)) => PointerRule(f)

\* C3, amended: the same, for a pointer type that has no registered encoder
\* and, when the pointer is non-nil and points to a struct, a struct type
\* that has no registered encoder.
C3_PointerAsPointeeUnregistered ==
  Reading =>
    \A f \in FieldU :
      ( /\ PointerField(f) /\ PointeeInClaim(f.type)
        /\ ~Registered(f.type)
        /\ f.val.nil \/ ~(Kind(Elem(f.type)) = "struct" /\ Registered(Elem(f.type))) )
      => PointerRule(f)

\* a non-nil pointer to a struct has been flattened into the collector
C3_Witness ==
  /\ last.branch = "structptr"
  /\ pc = "encode"
  /\ keys = <<"b", "a">>
  /\ values["b"] = <<"1">>

(***************************************************************************)
(* Slice fields and the key-order list.                                    *)
(***************************************************************************)
Without(ks, k) == SelectSeq(ks, LAMBDA x : x # k)

\* the pairs of key k stand next to each other in ps
Contiguous(ps, k) ==
  \A m, n \in 1..Len(ps) :
    (m < n /\ ps[m][1] = k /\ ps[n][1] = k) => \A j \in m..n : ps[j][1] = k

\* a slice field with encodable elements that omitempty does not suppress
SliceField(f) ==
  /\ f.name # "-"
  /\ Kind(f.type) = "slice" /\ ~Registered(f.type) /\ Scalarish(Elem(f.type))
  /\ ~Suppressed(f)

C7_KeysOnce == NoDuplicates(keys)

\* a struct with a scalar and a slice under the same key has been encoded:
\* the key was removed from its place and put last
C7_Witness ==
  /\ last.branch = "struct"
  /\ keys = <<"c", "a">>
  /\ values["a"] = <<"1", "0">>

(***************************************************************************)
(* Scalar fields and registered encoders.                                  *)
(***************************************************************************)
\* a field encoded as one string that omitempty does not suppress
ScalarField(f) ==
  f.name # "-" /\ Scalarish(f.type) /\ ~Flattened(f) /\ ~Suppressed(f)

C6_RegisteredFirst ==
  /\ Reading =>
        \A f \in FieldU :
          /\ (f.name # "-" /\ Registered(f.type) /\ ~Suppressed(f)) =>
                \A p \in {Post(f)} :
                  Appended(p, f.name, UserEncoder(regenc[f.type], f.type, f.val))
          /\ (SliceField(f) /\ Registered(Elem(f.type))) =>
                \A p \in {Post(f)} :
                  /\ ~p.panic
                  /\ p.values[f.name] =
                       [j \in 1..Len(f.val.sub) |->
                          UserEncoder(regenc[Elem(f.type)], Elem(f.type), f.val.sub[j])]
  /\ pc = "setup" =>
        \A t \in RegTypes, id \in EncIds :
          \A r \in {registerEncoder(regenc, t, id)} :
            /\ DOMAIN r = DOMAIN regenc \cup {t}
            /\ r[t] = id
            /\ \A u \in DOMAIN regenc \ {t} : r[u] = regenc[u]

\* an int field has been encoded by the encoder registered for int
C6_Witness ==
  /\ last.branch = "immediate" /\ last.name = "c"
  /\ "int" \in DOMAIN regenc /\ regenc["int"] = "g"
  /\ values["c"] = <<"g.1">>

(***************************************************************************)
(* omitempty.                                                              *)
(***************************************************************************)
\* C4: a field tagged omitempty that holds the zero or empty value of its
\* type (scalar, pointer, slice or nested struct) adds no key and no value;
\* one that holds another value is encoded as it is without omitempty.
C4_OmitEmpty ==
  Reading =>
    \A f \in FieldU :
      ( /\ f.name # "-" /\ "omitempty" \in f.opts
        /\ Kind(f.type) \in {"int", "ptr", "slice", "struct"} /\ Encodable(f.type) ) =>
      IF EmptyValue(f.type, f.val)
      THEN \A p \in {Post(f)} : p.keys = keys /\ p.values = values
      ELSE Post(f) = Post([f EXCEPT !.opts = NoOpts])

(***************************************************************************)
(* Errors.                                                                 *)
(***************************************************************************)
\* the output the caller of the entry point holds once it has returned:
\* dst for Encode, the *UrlValues returned for EncodeValues
CallerHolds(k) ==
  IF entry = "Encode" THEN k \in DOMAIN values ELSE ret.uv = "values" /\ k \in DOMAIN values

\* C2: a field with no resolvable encoder gets an entry in the composite
\* error, and when the composite error is returned the caller of Encode
\* and the caller of EncodeValues alike hold the pairs of the fields that
\* did encode.
C2_PartialOutput ==
  /\ Reading =>
        \A f \in FieldU : Branch(f, regenc) = "noenc" =>
          \A p \in {Post(f)} : f.type \in DOMAIN p.errors /\ p.values = values
  /\ (pc = "done" /\ ret.err = "MultiError") => \A k \in DOMAIN values : CallerHolds(k)

\* C8: a field of a type that cannot be encoded records an error under its
\* type, emits nothing, and lets the call go on to the next field.
C8_Unencodable ==
  Reading =>
    \A f \in FieldU : (f.name # "-" /\ ~Encodable(f.type)) =>
      \A p \in {Post(f)} :
        /\ ~p.panic
        /\ p.keys = keys /\ p.values = values
        /\ f.type \in DOMAIN p.errors

\* the errors a MultiError holds, those of nested MultiErrors included
RECURSIVE ErrorsIn(_, _)
ErrorsHeld(m) == ErrorsIn(m, DOMAIN m)
ErrorsIn(m, S) ==
  IF S = {} THEN 0
  ELSE LET k == CHOOSE x \in S : TRUE
       IN (IF m[k].sub = EmptyMap THEN 1 ELSE ErrorsIn(m[k].sub, DOMAIN m[k].sub))
            + ErrorsIn(m, S \ {k})

\* the fields that fail when field f is read: f itself, or fields nested
\* in it
RECURSIVE FailuresFrom(_, _)
RECURSIVE Failures(_)
Failures(f) ==
  IF f.name = "-" THEN 0
  ELSE IF Flattened(f) THEN FailuresFrom(f, 1)
  ELSE IF Branch(f, regenc) = "noenc" THEN 1 ELSE 0
FailuresFrom(f, j) ==
  IF j > NestedCount(f) THEN 0
  ELSE Failures(NestedField(f, j)) + FailuresFrom(f, j + 1)

\* C10: the composite error holds one error for every field that failed,
\* none lost or overwritten, and the error returned is nil exactly when no
\* field failed.
C10_EveryError ==
  /\ Reading =>
        \A f \in FieldU : \A p \in {Post(f)} :
          ~p.panic => ErrorsHeld(p.errors) = ErrorsHeld(errors) + Failures(f)
  /\ (pc = "done" /\ ret.err \in {"nil", "MultiError"}) =>
        (ret.err = "nil" <=> errors = EmptyMap)

====
